---- MODULE Spec2Model ----
(***************************************************************************)
(* Model of chrismfp: the converters of src/src/main.rs (command line) and *)
(* src/src/mfp.rs (process, the browser-facing entry point).               *)
(*                                                                         *)
(* Text is modelled as a sequence of one-character strings, so that        *)
(* whitespace splitting and lower-casing are computed character by         *)
(* character.  An IndexMap is modelled as a sequence of entries            *)
(* [key, value] in insertion order.                                        *)
(***************************************************************************)
EXTENDS Integers, Sequences, FiniteSets

VARIABLES
    pc,                       \* position in main / process
    data_type,                \* args.data_type (main.rs) or file_type (mfp.rs)
    headers,                  \* first row of the CSV document
    rows,                     \* data rows of the CSV document
    new_headers,              \* header row installed by set_headers
    records,                  \* Vec of parsed records
    result,                   \* value returned by the deserialize_* function
    records_grouped_by_date,  \* the IndexMap built by the grouping loop
    out                       \* text written to stdout / returned by process

vars == <<pc, data_type, headers, rows, new_headers, records, result,
          records_grouped_by_date, out>>

(***************************************************************************)
(* Bounds of the model.                                                    *)
(***************************************************************************)
MaxWindowLen == 6     \* records per input, windowing inputs
MaxGroupLen == 3      \* records per input, grouping inputs
MaxDateLen == 3       \* records per input, irregular date texts
MaxEntries == 3       \* nutrition entries per input
MaxRows == 3          \* data rows per CSV document

BoundedSeq(S, n) == UNION {[1..k -> S] : k \in 0..n}

(***************************************************************************)
(* Generic helpers.                                                        *)
(***************************************************************************)
RECURSIVE Reverse(_)
Reverse(s) == IF s = <<>> THEN <<>> ELSE Append(Reverse(Tail(s)), Head(s))

\* Vec::truncate / IndexMap::truncate: keep the first n elements.
Truncate(s, n) == IF Len(s) <= n THEN s ELSE SubSeq(s, 1, n)

Min(a, b) == IF a <= b THEN a ELSE b

\* Option values.
None == [some |-> FALSE, val |-> <<>>]
Some(v) == [some |-> TRUE, val |-> v]

\* IndexMap lookup: position of key k, 0 when absent.
IndexOf(m, k) ==
    IF \E i \in DOMAIN m : m[i].key = k
    THEN CHOOSE i \in DOMAIN m : m[i].key = k
    ELSE 0

Keys(m) == [i \in DOMAIN m |-> m[i].key]
Values(m) == [i \in DOMAIN m |-> m[i].value]

(***************************************************************************)
(* Date normalisation: date.split_whitespace().next().unwrap()             *)
(***************************************************************************)
\* char::is_whitespace, over the characters of the model.
IsWhitespace(c) == c \in {" ", "\t", "\n", "\r"}

RECURSIVE SkipWhitespace(_)
SkipWhitespace(s) ==
    IF s = <<>> THEN <<>>
    ELSE IF IsWhitespace(Head(s)) THEN SkipWhitespace(Tail(s))
    ELSE s

RECURSIVE TakeWord(_)
TakeWord(s) ==
    IF s = <<>> THEN <<>>
    ELSE IF IsWhitespace(Head(s)) THEN <<>>
    ELSE <<Head(s)>> \o TakeWord(Tail(s))

\* str::split_whitespace().next(): the first maximal run of non-whitespace
\* characters; leading whitespace is skipped; None when there is no such run.
split_whitespace_next(s) ==
    LET t == SkipWhitespace(s)
    IN  IF t = <<>> THEN None ELSE Some(TakeWord(t))

(***************************************************************************)
(* LastFourDaysWorkouts::from                                              *)
(***************************************************************************)
\* Faulty variant of ExerciseEntry: an existing row is replaced, not extended.
ExerciseEntryMutantReplace(map, exercise_name, set_tuple) ==
    LET i == IndexOf(map, exercise_name)
    IN  IF i # 0
        THEN [map EXCEPT ![i].value = [sets |-> <<set_tuple>>]]
        ELSE Append(map, [key |-> exercise_name, value |-> [sets |-> <<set_tuple>>]])

\* Inner entry(exercise_name).and_modify(push).or_insert(row with one tuple).
ExerciseEntry(map, exercise_name, set_tuple) ==
    LET i == IndexOf(map, exercise_name)
    IN  IF i # 0
        THEN [map EXCEPT ![i].value.sets = Append(@, set_tuple)]
        ELSE Append(map, [key |-> exercise_name, value |-> [sets |-> <<set_tuple>>]])

\* Outer entry(date).and_modify(..).or_insert(new ExercisesMap).
DateEntry(grouped, date, exercise_name, set_tuple) ==
    LET i == IndexOf(grouped, date)
    IN  IF i # 0
        THEN [grouped EXCEPT ![i].value = ExerciseEntry(@, exercise_name, set_tuple)]
        ELSE Append(grouped,
                    [key |-> date,
                     value |-> <<[key |-> exercise_name,
                                  value |-> [sets |-> <<set_tuple>>]]>>])

\* The for loop over raw_workout_records.  unwrap() on None panics and the
\* function returns nothing.
RECURSIVE GroupLoop(_, _)
GroupLoop(raw_workout_records, grouped) ==
    IF raw_workout_records = <<>> THEN [panicked |-> FALSE, data |-> grouped]
    ELSE LET r == Head(raw_workout_records)
             d == split_whitespace_next(r.date)
         IN  IF ~d.some THEN [panicked |-> TRUE, data |-> <<>>]
             ELSE GroupLoop(Tail(raw_workout_records),
                            DateEntry(grouped, d.val, r.exercise_name,
                                      <<r.weight, r.reps>>))

\* Faulty variant of Window: truncate before reverse.
WindowMutantTruncateFirst(grouped) == Reverse(Truncate(grouped, 4))

\* records_grouped_by_date.reverse(); records_grouped_by_date.truncate(4)
Window(grouped) == Truncate(Reverse(grouped), 4)

LastFourDaysWorkouts_from(raw_workout_records) ==
    LET g == GroupLoop(raw_workout_records, <<>>)
    IN  IF g.panicked THEN g
        ELSE [panicked |-> FALSE, data |-> Window(g.data)]

(***************************************************************************)
(* flatten and build_workout_csv_for_clipboard                             *)
(***************************************************************************)
\* Faulty variant of flatten: reps pushed before weight.
RECURSIVE flattenMutantSwapped(_)
flattenMutantSwapped(sets) ==
    IF sets = <<>> THEN <<>>
    ELSE <<Head(sets)[2], Head(sets)[1]>> \o flattenMutantSwapped(Tail(sets))

\* fold over the sets: push tup.0, then tup.1.
RECURSIVE flatten(_)
flatten(sets) ==
    IF sets = <<>> THEN <<>>
    ELSE <<Head(sets)[1], Head(sets)[2]>> \o flatten(Tail(sets))

\* [String]::join(","): a line of text is the sequence of its pieces.
RECURSIVE Join(_)
Join(row) ==
    IF row = <<>> THEN <<>>
    ELSE IF Len(row) = 1 THEN row
    ELSE <<Head(row), ",">> \o Join(Tail(row))

\* One println! per exercise of the date, then println!("").
RECURSIVE PrintExercises(_)
PrintExercises(map) ==
    IF map = <<>> THEN <<>>
    ELSE <<Join(flatten(Head(map).value.sets))>> \o PrintExercises(Tail(map))

RECURSIVE PrintDates(_)
PrintDates(data) ==
    IF data = <<>> THEN <<>>
    ELSE PrintExercises(Head(data).value) \o << <<>> >> \o PrintDates(Tail(data))

(***************************************************************************)
(* Workout inputs.                                                         *)
(***************************************************************************)
WindowDates == { <<"1">>, <<"2">>, <<"3">>, <<"4">>, <<"5">> }
GroupDates == { <<"1">>, <<"1", " ", "9">>, <<"2">> }
IrregularDates == { <<>>, <<" ">>, <<" ", "1">>, <<"1", "\t", "9">>, <<"2">> }
Exercises == { "Squat", "Bench" }
Sets == { <<"100", "10">>, <<"105", "8">> }

WorkoutRecord(d, e, s) ==
    [date |-> d, exercise_name |-> e, weight |-> s[1], reps |-> s[2]]

WindowRecords == { WorkoutRecord(d, "Squat", <<"100", "10">>) : d \in WindowDates }
GroupRecords == { WorkoutRecord(d, e, s) : d \in GroupDates, e \in Exercises, s \in Sets }
IrregularRecords == { WorkoutRecord(d, "Squat", <<"100", "10">>) : d \in IrregularDates }

InitWorkout ==
    /\ pc = "parsed"
    /\ data_type = "workouts"
    /\ headers = <<>>
    /\ rows = <<>>
    /\ new_headers = <<>>
    /\ records \in BoundedSeq(WindowRecords, MaxWindowLen)
                   \cup BoundedSeq(GroupRecords, MaxGroupLen)
                   \cup BoundedSeq(IrregularRecords, MaxDateLen)
    /\ result = <<>>
    /\ records_grouped_by_date = <<>>
    /\ out = <<>>

\* build_workout_csv_for_clipboard, first statement: LastFourDaysWorkouts::from.
\* A panic ends the program before anything is printed.
GroupWorkouts ==
    /\ pc = "parsed"
    /\ data_type = "workouts"
    /\ LET g == LastFourDaysWorkouts_from(records)
       IN  IF g.panicked
           THEN /\ pc' = "panicked"
                /\ records_grouped_by_date' = <<>>
           ELSE /\ pc' = "grouped"
                /\ records_grouped_by_date' = g.data
    /\ UNCHANGED <<data_type, headers, rows, new_headers, records, result, out>>

\* build_workout_csv_for_clipboard, the printing loops.
PrintWorkouts ==
    /\ pc = "grouped"
    /\ data_type = "workouts"
    /\ out' = PrintDates(records_grouped_by_date)
    /\ pc' = "done"
    /\ UNCHANGED <<data_type, headers, rows, new_headers, records, result,
                   records_grouped_by_date>>

NextWorkout == GroupWorkouts \/ PrintWorkouts

SpecWorkout == InitWorkout /\ [][NextWorkout]_vars

(***************************************************************************)
(* Properties of the workout path.                                         *)
(***************************************************************************)
\* The date under which the grouping loop files record r.
NormDate(r) == split_whitespace_next(r.date).val

\* The strictly increasing sequence of the elements of a finite set of numbers.
RECURSIVE SortedSeq(_)
SortedSeq(S) ==
    IF S = {} THEN <<>>
    ELSE LET m == CHOOSE x \in S : \A y \in S : x <= y
         IN  <<m>> \o SortedSeq(S \ {m})

\* The values key[1..n] without repeats, in order of first occurrence.
FirstOccurrences(key) ==
    LET first == SortedSeq({i \in DOMAIN key : \A j \in 1..(i - 1) : key[j] # key[i]})
    IN  [k \in DOMAIN first |-> key[first[k]]]

\* The last min(4, n) elements of D, last first.
LastFourReversed(D) ==
    LET n == Len(D)
    IN  [k \in 1..Min(4, n) |-> D[n - k + 1]]

WorkoutGrouped == data_type = "workouts" /\ pc \in {"grouped", "done"}

\* C1: the grouping returned by LastFourDaysWorkouts::from holds exactly
\* min(4, n) date groups, the dates introduced last among the n distinct
\* normalized dates D1..Dn of the input, in reverse first-occurrence order
\* (Dn, Dn-1, ...); for n < 4 every date is kept.
C1_LastFourDatesMostRecentFirst ==
    WorkoutGrouped =>
        Keys(records_grouped_by_date)
            = LastFourReversed(FirstOccurrences([i \in DOMAIN records |-> NormDate(records[i])]))

\* C1 witness: five distinct dates, one of them repeated, four groups kept.
C1_Witness ==
    /\ pc = "done"
    /\ Len(records) = 6
    /\ Cardinality({records[i].date : i \in DOMAIN records}) = 5
    /\ Len(records_grouped_by_date) = 4

\* The (weight, reps) pairs of the records filed under date d and exercise e,
\* in input order.
SetsOf(d, e) ==
    LET idx == SortedSeq({i \in DOMAIN records :
                            NormDate(records[i]) = d /\ records[i].exercise_name = e})
    IN  [k \in DOMAIN idx |-> <<records[idx[k]].weight, records[idx[k]].reps>>]

\* The exercise names of the records filed under date d, in first-seen order.
ExercisesOf(d) ==
    LET idx == SortedSeq({i \in DOMAIN records : NormDate(records[i]) = d})
    IN  FirstOccurrences([k \in DOMAIN idx |-> records[idx[k]].exercise_name])

\* C2: for every kept date, the exercises are those of the input records with
\* that normalized date in first-seen order, and the set list of each exercise
\* is the (weight, reps) pairs of exactly the matching input records, in their
\* original relative order.
C2_SetListsAreMatchingSubsequences ==
    WorkoutGrouped =>
        \A i \in DOMAIN records_grouped_by_date :
            LET d == records_grouped_by_date[i].key
                em == records_grouped_by_date[i].value
            IN  /\ Keys(em) = ExercisesOf(d)
                /\ \A j \in DOMAIN em : em[j].value.sets = SetsOf(d, em[j].key)

\* C2 witness: a date with two exercises, the first with two different sets,
\* built from records of which one carries a time of day.
C2_Witness ==
    /\ pc = "done"
    /\ \E i \in DOMAIN records : records[i].date # NormDate(records[i])
    /\ \E i \in DOMAIN records_grouped_by_date :
          LET em == records_grouped_by_date[i].value
          IN  /\ Len(em) = 2
              /\ Len(em[1].value.sets) = 2
              /\ em[1].value.sets[1] # em[1].value.sets[2]

\* Number of output lines before the block of the k-th kept date.
RECURSIVE BlockOffset(_)
BlockOffset(k) ==
    IF k <= 1 THEN 0
    ELSE BlockOffset(k - 1) + Len(records_grouped_by_date[k - 1].value) + 1

\* C9: the output is, for each kept date in grouping order, one line per
\* exercise in the date's exercise order, the line being weight1,reps1,
\* weight2,reps2,... of the exercise's set list joined by commas, followed by
\* exactly one blank line; nothing else (no header) is printed.
C9_WorkoutOutputBlocks ==
    (data_type = "workouts" /\ pc = "done") =>
        LET n == Len(records_grouped_by_date)
        IN  /\ Len(out) = BlockOffset(n + 1)
            /\ \A k \in 1..n :
                  LET em == records_grouped_by_date[k].value
                  IN  /\ out[BlockOffset(k) + Len(em) + 1] = <<>>
                      /\ \A j \in DOMAIN em :
                            LET line == out[BlockOffset(k) + j]
                                sets == em[j].value.sets
                            IN  /\ Len(line) = 4 * Len(sets) - 1
                                /\ \A s \in DOMAIN sets :
                                      /\ line[4 * s - 3] = sets[s][1]
                                      /\ line[4 * s - 1] = sets[s][2]
                                /\ \A p \in DOMAIN line : p % 2 = 0 => line[p] = ","

\* C9 witness: two date blocks, one exercise with sets [(100,10),(105,8)]
\* printed as 100,10,105,8.
C9_Witness ==
    /\ pc = "done"
    /\ Len(records_grouped_by_date) = 2
    /\ \E l \in DOMAIN out : out[l] = <<"100", ",", "10", ",", "105", ",", "8">>

\* The substring of s before its first whitespace character (all of s when it
\* has none).
PrefixBeforeWhitespace(s) ==
    IF \E i \in DOMAIN s : IsWhitespace(s[i])
    THEN SubSeq(s, 1, (CHOOSE i \in DOMAIN s :
                          /\ IsWhitespace(s[i])
                          /\ \A j \in 1..(i - 1) : ~IsWhitespace(s[j])) - 1)
    ELSE s

\* C10: the grouper never fails on a date text, and the date groups are those
\* of the substrings before the first whitespace character of each date.
C10_DatePrefixNeverFails ==
    /\ pc # "panicked"
    /\ WorkoutGrouped =>
          Keys(records_grouped_by_date)
              = LastFourReversed(FirstOccurrences(
                    [i \in DOMAIN records |-> PrefixBeforeWhitespace(records[i].date)]))

(***************************************************************************)
(* build_nutrition_csv_for_clipboard (main.rs and mfp.rs) and the tail of  *)
(* process (mfp.rs).                                                       *)
(*                                                                         *)
(* The text produced by the csv writer is a flat sequence of tokens: Str   *)
(* for a piece of text, Num for a serialized f64 field (its rendering as   *)
(* digits is the csv crate's and is not part of this repository).          *)
(***************************************************************************)
Str(s) == [str |-> s, num |-> 0]
Num(n) == [str |-> "", num |-> n]

DigitChars == <<"0", "1", "2", "3", "4", "5", "6", "7", "8", "9">>
IsDigit(c) == \E i \in DOMAIN DigitChars : DigitChars[i] = c
DigitValue(c) == (CHOOSE i \in DOMAIN DigitChars : DigitChars[i] = c) - 1

RECURSIVE DecimalValue(_, _)
DecimalValue(text, acc) ==
    IF text = <<>> THEN acc
    ELSE DecimalValue(Tail(text), 10 * acc + DigitValue(Head(text)))

\* str::parse::<f64>() on the texts of the model: a non-empty string of
\* digits is Ok(value); the empty string and a string with another character
\* are Err.
parse_f64(text) ==
    IF text = <<>> \/ \E i \in DOMAIN text : ~IsDigit(text[i])
    THEN None
    ELSE Some(DecimalValue(text, 0))

\* Faulty variant of NutritionEntry: an existing aggregate is overwritten.
NutritionEntryMutantOverwrite(grouped, date, protein, carbohydrates, fat) ==
    LET i == IndexOf(grouped, date)
        fresh == [protein |-> protein, carbohydrates |-> carbohydrates, fat |-> fat]
    IN  IF i # 0
        THEN [grouped EXCEPT ![i].value = fresh]
        ELSE Append(grouped, [key |-> date, value |-> fresh])

\* Faulty variant of NutritionEntry: a new date is put first.
NutritionEntryMutantInsertFront(grouped, date, protein, carbohydrates, fat) ==
    LET i == IndexOf(grouped, date)
    IN  IF i # 0
        THEN [grouped EXCEPT ![i].value =
                 [protein |-> @.protein + protein,
                  carbohydrates |-> @.carbohydrates + carbohydrates,
                  fat |-> @.fat + fat]]
        ELSE <<[key |-> date,
                value |-> [protein |-> protein,
                           carbohydrates |-> carbohydrates,
                           fat |-> fat]]>> \o grouped

\* entry(date).and_modify(|pr| pr.x += ..).or_insert(ProcessedNutritionRecord {..})
\* for already parsed values.
NutritionEntry(grouped, date, protein, carbohydrates, fat) ==
    LET i == IndexOf(grouped, date)
    IN  IF i # 0
        THEN [grouped EXCEPT ![i].value =
                 [protein |-> @.protein + protein,
                  carbohydrates |-> @.carbohydrates + carbohydrates,
                  fat |-> @.fat + fat]]
        ELSE Append(grouped,
                    [key |-> date,
                     value |-> [protein |-> protein,
                                carbohydrates |-> carbohydrates,
                                fat |-> fat]])

\* Faulty variant of NutritionLoop: a record with an unparsable field is skipped.
RECURSIVE NutritionLoopMutantSkipInvalid(_, _)
NutritionLoopMutantSkipInvalid(recs, grouped) ==
    IF recs = <<>> THEN [panicked |-> FALSE, data |-> grouped]
    ELSE LET r == Head(recs)
             p == parse_f64(r.protein)
             c == parse_f64(r.carbohydrates)
             f == parse_f64(r.fat)
         IN  IF ~p.some \/ ~c.some \/ ~f.some
             THEN NutritionLoopMutantSkipInvalid(Tail(recs), grouped)
             ELSE NutritionLoopMutantSkipInvalid(Tail(recs),
                      NutritionEntry(grouped, r.date, p.val, c.val, f.val))

\* The for loop over the nutrition records.  The argument of or_insert is
\* evaluated for every record, so the three fields of every record are parsed
\* and unwrapped whether its date is new or not; an Err panics.
RECURSIVE NutritionLoop(_, _)
NutritionLoop(recs, grouped) ==
    IF recs = <<>> THEN [panicked |-> FALSE, data |-> grouped]
    ELSE LET r == Head(recs)
             p == parse_f64(r.protein)
             c == parse_f64(r.carbohydrates)
             f == parse_f64(r.fat)
         IN  IF ~p.some \/ ~c.some \/ ~f.some
             THEN [panicked |-> TRUE, data |-> <<>>]
             ELSE NutritionLoop(Tail(recs),
                                NutritionEntry(grouped, r.date, p.val, c.val, f.val))

HeaderLine ==
    <<Str("protein"), Str(","), Str("carbohydrates"), Str(","), Str("fat"), Str("\n")>>

RowLine(pr) ==
    <<Num(pr.protein), Str(","), Num(pr.carbohydrates), Str(","), Num(pr.fat), Str("\n")>>

\* csv::Writer::serialize of a struct: the first call writes the header row
\* before the record, every call writes the record.
Serialize(wtr, pr) ==
    [wrote_header |-> TRUE,
     buf |-> wtr.buf \o (IF wtr.wrote_header THEN <<>> ELSE HeaderLine) \o RowLine(pr)]

\* for record in processed_records { wtr.serialize(record).ok(); }
RECURSIVE SerializeAll(_, _)
SerializeAll(wtr, processed_records) ==
    IF processed_records = <<>> THEN wtr
    ELSE SerializeAll(Serialize(wtr, Head(processed_records)), Tail(processed_records))

\* str::contains for a one-token pattern.
Contains(text, tok) == \E i \in DOMAIN text : text[i] = tok

\* str::replace: every non-overlapping occurrence of pat, left to right.
RECURSIVE Replace(_, _, _)
Replace(text, pat, rep) ==
    IF Len(text) < Len(pat) THEN text
    ELSE IF SubSeq(text, 1, Len(pat)) = pat
         THEN rep \o Replace(SubSeq(text, Len(pat) + 1, Len(text)), pat, rep)
         ELSE <<Head(text)>> \o Replace(Tail(text), pat, rep)

\* Faulty variant of process_tail: the header line is not stripped.
process_tailMutantKeepHeader(buf) ==
    Replace(buf, <<Str("\n")>>, <<Str("\r"), Str("\n")>>)

\* The tail of process: strip the header line, then LF -> CRLF.
process_tail(buf) ==
    LET stripped == IF Contains(buf, Str("protein"))
                    THEN Replace(buf, HeaderLine, <<>>)
                    ELSE buf
    IN  Replace(stripped, <<Str("\n")>>, <<Str("\r"), Str("\n")>>)

(***************************************************************************)
(* Nutrition inputs.                                                       *)
(***************************************************************************)
NutritionDates == { "2024-01-01", "2024-01-02", "2023-12-31" }
MacroTexts ==
    { << <<"2", "0">>, <<"3", "0">>, <<"5">> >>,
      << <<"1", "0">>, <<"5">>, <<"2">> >>,
      << <<>>, <<"3", "0">>, <<"5">> >>,
      << <<"2", "0">>, <<"x">>, <<"5">> >>,
      << <<"2", "0">>, <<"3", "0">>, <<"1", "x">> >> }

NutritionRecords ==
    { [date |-> d, protein |-> m[1], carbohydrates |-> m[2], fat |-> m[3]] :
        d \in NutritionDates, m \in MacroTexts }

InitNutrition ==
    /\ pc = "parsed"
    /\ data_type \in {"nutrition", "Macros"}
    /\ headers = <<>>
    /\ rows = <<>>
    /\ new_headers = <<>>
    /\ records \in BoundedSeq(NutritionRecords, MaxEntries)
    /\ result = <<>>
    /\ records_grouped_by_date = <<>>
    /\ out = <<>>

\* build_nutrition_csv_for_clipboard: the grouping loop, then one serialize
\* per aggregate, then the flush.  A panic in the loop ends the run before the
\* writer has been given anything.
build_nutrition_csv_for_clipboard ==
    /\ pc = "parsed"
    /\ data_type \in {"nutrition", "Macros"}
    /\ LET g == NutritionLoop(records, <<>>)
       IN  IF g.panicked
           THEN /\ pc' = "panicked"
                /\ records_grouped_by_date' = <<>>
                /\ out' = <<>>
           ELSE /\ pc' = IF data_type = "Macros" THEN "written" ELSE "done"
                /\ records_grouped_by_date' = g.data
                /\ out' = SerializeAll([wrote_header |-> FALSE, buf |-> <<>>],
                                       Values(g.data)).buf
    /\ UNCHANGED <<data_type, headers, rows, new_headers, records, result>>

\* process, after the match: read the buffer back, strip, convert line ends.
process_return ==
    /\ pc = "written"
    /\ data_type = "Macros"
    /\ out' = process_tail(out)
    /\ pc' = "done"
    /\ UNCHANGED <<data_type, headers, rows, new_headers, records, result,
                   records_grouped_by_date>>

NextNutrition == build_nutrition_csv_for_clipboard \/ process_return

SpecNutrition == InitNutrition /\ [][NextNutrition]_vars

(***************************************************************************)
(* Properties of the nutrition path.                                       *)
(***************************************************************************)
NutritionRun == data_type \in {"nutrition", "Macros"}
NutritionBuilt == NutritionRun /\ pc \in {"written", "done"}

ValidRecord(r) ==
    parse_f64(r.protein).some /\ parse_f64(r.carbohydrates).some /\ parse_f64(r.fat).some

RECURSIVE SumOver(_, _)
SumOver(S, f) ==
    IF S = {} THEN 0
    ELSE LET x == CHOOSE x \in S : TRUE
         IN  f[x] + SumOver(S \ {x}, f)

ProteinOf == [i \in DOMAIN records |-> parse_f64(records[i].protein).val]
CarbohydratesOf == [i \in DOMAIN records |-> parse_f64(records[i].carbohydrates).val]
FatOf == [i \in DOMAIN records |-> parse_f64(records[i].fat).val]
AggregateProtein ==
    [k \in DOMAIN records_grouped_by_date |-> records_grouped_by_date[k].value.protein]
AggregateCarbohydrates ==
    [k \in DOMAIN records_grouped_by_date |-> records_grouped_by_date[k].value.carbohydrates]
AggregateFat ==
    [k \in DOMAIN records_grouped_by_date |-> records_grouped_by_date[k].value.fat]

\* C3: when every protein, carbohydrates and fat field is a valid number, the
\* run completes with one aggregate per distinct date whose three fields are
\* the sums of the fields of the entries with that date, so that each field's
\* total over the aggregates is its total over the entries.
C3_AggregatesAreSums ==
    (NutritionRun /\ pc # "parsed" /\ \A i \in DOMAIN records : ValidRecord(records[i])) =>
        /\ pc # "panicked"
        /\ {records_grouped_by_date[k].key : k \in DOMAIN records_grouped_by_date}
              = {records[i].date : i \in DOMAIN records}
        /\ Cardinality({records[i].date : i \in DOMAIN records}) = Len(records_grouped_by_date)
        /\ \A k \in DOMAIN records_grouped_by_date :
              LET same == {i \in DOMAIN records : records[i].date = records_grouped_by_date[k].key}
              IN  /\ AggregateProtein[k] = SumOver(same, ProteinOf)
                  /\ AggregateCarbohydrates[k] = SumOver(same, CarbohydratesOf)
                  /\ AggregateFat[k] = SumOver(same, FatOf)
        /\ SumOver(DOMAIN records_grouped_by_date, AggregateProtein)
              = SumOver(DOMAIN records, ProteinOf)
        /\ SumOver(DOMAIN records_grouped_by_date, AggregateCarbohydrates)
              = SumOver(DOMAIN records, CarbohydratesOf)
        /\ SumOver(DOMAIN records_grouped_by_date, AggregateFat)
              = SumOver(DOMAIN records, FatOf)

\* C3 witness: three valid entries, two of them on one date.
C3_Witness ==
    /\ NutritionBuilt
    /\ Len(records) = 3
    /\ Len(records_grouped_by_date) = 2
    /\ \E k \in DOMAIN records_grouped_by_date : AggregateProtein[k] = 30

\* Number of occurrences of token tok in text.
Count(text, tok) == Cardinality({i \in DOMAIN text : text[i] = tok})

\* Text is n lines of w tokens, the k-th line (after skip lines) holding the
\* k-th aggregate's protein, carbohydrates and fat at tokens 1, 3 and 5.
DataRowsAt(text, skip, w) ==
    \A k \in DOMAIN records_grouped_by_date :
        LET b == w * (skip + k - 1)
        IN  /\ text[b + 1] = Num(AggregateProtein[k])
            /\ text[b + 2] = Str(",")
            /\ text[b + 3] = Num(AggregateCarbohydrates[k])
            /\ text[b + 4] = Str(",")
            /\ text[b + 5] = Num(AggregateFat[k])
            /\ text[b + w] = Str("\n")

DistinctDates == Cardinality({records[i].date : i \in DOMAIN records})

\* C4 as claimed: for an input with at least one row, the nutrition output of
\* process with kind "Macros" and of the command-line path has the header line
\* protein,carbohydrates,fat exactly once, as its first line, followed by one
\* data row per distinct date.
C4_HeaderOnceThenRows ==
    (NutritionRun /\ pc = "done" /\ records # <<>>) =>
        /\ Len(out) >= 6
        /\ SubSeq(out, 1, 6) = HeaderLine
        /\ Count(out, Str("protein")) = 1
        /\ Count(out, Str("\n")) = 1 + DistinctDates

\* C4 amended: the command-line nutrition output has the header line
\* protein,carbohydrates,fat exactly once, as its first line, followed by one
\* data row per distinct date; the output of process with kind "Macros" has no
\* header line and is exactly one data row per distinct date, each ended by
\* CR LF.
C4_HeaderOnlyOnCommandLine ==
    (NutritionRun /\ pc = "done" /\ records # <<>>) =>
        IF data_type = "nutrition"
        THEN /\ Len(out) = 6 * (1 + DistinctDates)
             /\ SubSeq(out, 1, 6) = HeaderLine
             /\ Count(out, Str("protein")) = 1
             /\ Count(out, Str("\n")) = 1 + DistinctDates
             /\ DataRowsAt(out, 1, 6)
        ELSE /\ Len(out) = 7 * DistinctDates
             /\ Count(out, Str("protein")) = 0
             /\ Count(out, Str("carbohydrates")) = 0
             /\ Count(out, Str("fat")) = 0
             /\ Count(out, Str("\n")) = DistinctDates
             /\ DataRowsAt(out, 0, 7)
             /\ \A i \in DOMAIN out : out[i] = Str("\n") => out[i - 1] = Str("\r")

\* C4 witness: process with kind "Macros" on two rows of 2024-01-01 with
\* (20,30,5) and (10,5,2) returns the single row 30,35,7 and no header.
C4_Witness ==
    /\ pc = "done"
    /\ data_type = "Macros"
    /\ records = <<[date |-> "2024-01-01", protein |-> <<"2", "0">>,
                    carbohydrates |-> <<"3", "0">>, fat |-> <<"5">>],
                   [date |-> "2024-01-01", protein |-> <<"1", "0">>,
                    carbohydrates |-> <<"5">>, fat |-> <<"2">>]>>
    /\ out = <<Num(30), Str(","), Num(35), Str(","), Num(7), Str("\r"), Str("\n")>>

\* C5: there is exactly one aggregate per distinct input date, the aggregates
\* are in the order in which their dates first occur in the input, and the
\* output rows are the aggregates in that order.
C5_FirstSeenDateOrder ==
    NutritionBuilt =>
        /\ Keys(records_grouped_by_date)
              = FirstOccurrences([i \in DOMAIN records |-> records[i].date])
        /\ pc = "written" => DataRowsAt(out, 1, 6)
        /\ (pc = "done" /\ data_type = "nutrition") => DataRowsAt(out, 1, 6)
        /\ (pc = "done" /\ data_type = "Macros") => DataRowsAt(out, 0, 7)

\* C5 witness: a later date first, an earlier date second, the later date
\* again; the aggregates are in that first-seen order.
C5_Witness ==
    /\ pc = "done"
    /\ Len(records) = 3
    /\ records[1].date = "2024-01-02"
    /\ records[2].date = "2023-12-31"
    /\ records[3].date = "2024-01-02"
    /\ Keys(records_grouped_by_date) = <<"2024-01-02", "2023-12-31">>

\* C6: if any entry has a protein, carbohydrates or fat field that is not a
\* valid number, the run ends in a panic and no output at all is produced.
C6_InvalidNumberAbortsWithoutOutput ==
    (NutritionRun /\ pc # "parsed" /\ \E i \in DOMAIN records : ~ValidRecord(records[i])) =>
        /\ pc = "panicked"
        /\ out = <<>>

\* C6 witness: two valid entries of two dates, then an entry with an invalid
\* field; the run has panicked.
C6_Witness ==
    /\ pc = "panicked"
    /\ NutritionRun
    /\ Len(records) = 3
    /\ ValidRecord(records[1])
    /\ ValidRecord(records[2])
    /\ records[1].date # records[2].date
    /\ ~ValidRecord(records[3])

(***************************************************************************)
(* Header normalisation and record parsing: deserialize_nutrition_csv,     *)
(* deserialize_weight_csv (main.rs and mfp.rs), deserialize_workout_csv    *)
(* and deserialize_steps_csv.                                              *)
(***************************************************************************)
\* The match arms of deserialize_nutrition_csv.
NutritionTable ==
    <<[from |-> <<"F", "a", "t", " ", "(", "g", ")">>,
        to |-> <<"f", "a", "t">>],
      [from |-> <<"S", "o", "d", "i", "u", "m", " ", "(", "m", "g", ")">>,
        to |-> <<"s", "o", "d", "i", "u", "m">>],
      [from |-> <<"C", "a", "r", "b", "o", "h", "y", "d", "r", "a", "t", "e", "s", " ", "(", "g", ")">>,
        to |-> <<"c", "a", "r", "b", "o", "h", "y", "d", "r", "a", "t", "e", "s">>],
      [from |-> <<"P", "r", "o", "t", "e", "i", "n", " ", "(", "g", ")">>,
        to |-> <<"p", "r", "o", "t", "e", "i", "n">>],
      [from |-> <<"S", "a", "t", "u", "r", "a", "t", "e", "d", " ", "F", "a", "t">>,
        to |-> <<"s", "a", "t", "u", "r", "a", "t", "e", "d", "_", "f", "a", "t">>],
      [from |-> <<"P", "o", "l", "y", "u", "n", "s", "a", "t", "u", "r", "a", "t", "e", "d", " ", "F", "a", "t">>,
        to |-> <<"p", "o", "l", "y", "u", "n", "s", "a", "t", "u", "r", "a", "t", "e", "d", "_", "f", "a", "t">>],
      [from |-> <<"M", "o", "n", "o", "u", "n", "s", "a", "t", "u", "r", "a", "t", "e", "d", " ", "F", "a", "t">>,
        to |-> <<"m", "o", "n", "o", "u", "n", "s", "a", "t", "u", "r", "a", "t", "e", "d", "_", "f", "a", "t">>],
      [from |-> <<"T", "r", "a", "n", "s", " ", "F", "a", "t">>,
        to |-> <<"t", "r", "a", "n", "s", "_", "f", "a", "t">>],
      [from |-> <<"V", "i", "t", "a", "m", "i", "n", " ", "A">>,
        to |-> <<"v", "i", "t", "a", "m", "i", "n", "_", "a">>],
      [from |-> <<"V", "i", "t", "a", "m", "i", "n", " ", "C">>,
        to |-> <<"v", "i", "t", "a", "m", "i", "n", "_", "c">>]>>

\* The match arm of deserialize_weight_csv.
WeightTable ==
    <<[from |-> <<"B", "o", "d", "y", " ", "F", "a", "t", " ", "%">>,
        to |-> <<"b", "o", "d", "y", "_", "f", "a", "t">>]>>

\* The match arms of deserialize_workout_csv.
WorkoutTable ==
    <<[from |-> <<"W", "o", "r", "k", "o", "u", "t", " ", "N", "a", "m", "e">>,
        to |-> <<"w", "o", "r", "k", "o", "u", "t", "_", "n", "a", "m", "e">>],
      [from |-> <<"E", "x", "e", "r", "c", "i", "s", "e", " ", "N", "a", "m", "e">>,
        to |-> <<"e", "x", "e", "r", "c", "i", "s", "e", "_", "n", "a", "m", "e">>],
      [from |-> <<"S", "e", "t", " ", "O", "r", "d", "e", "r">>,
        to |-> <<"s", "e", "t", "_", "o", "r", "d", "e", "r">>],
      [from |-> <<"W", "o", "r", "k", "o", "u", "t", " ", "N", "o", "t", "e", "s">>,
        to |-> <<"w", "o", "r", "k", "o", "u", "t", "_", "n", "o", "t", "e", "s">>]>>

\* The match arms of deserialize_steps_csv.
StepsTable ==
    <<[from |-> <<"T", "y", "p", "e">>,
        to |-> <<"_", "t", "y", "p", "e">>],
      [from |-> <<"E", "x", "e", "r", "c", "i", "s", "e", " ", "C", "a", "l", "o", "r", "i", "e", "s">>,
        to |-> <<"e", "x", "e", "r", "c", "i", "s", "e", "_", "c", "a", "l", "o", "r", "i", "e", "s">>],
      [from |-> <<"E", "x", "e", "r", "c", "i", "s", "e", " ", "M", "i", "n", "u", "t", "e", "s">>,
        to |-> <<"e", "x", "e", "r", "c", "i", "s", "e", "_", "m", "i", "n", "u", "t", "e", "s">>],
      [from |-> <<"R", "e", "p", "s", " ", "P", "e", "r", " ", "S", "e", "t">>,
        to |-> <<"r", "p", "s">>]>>

\* struct RawNutritionRecord: note is an Option.
RawNutritionRecord ==
    <<[name |-> "date", optional |-> FALSE,
        label |-> <<"d", "a", "t", "e">>],
      [name |-> "meal", optional |-> FALSE,
        label |-> <<"m", "e", "a", "l">>],
      [name |-> "calories", optional |-> FALSE,
        label |-> <<"c", "a", "l", "o", "r", "i", "e", "s">>],
      [name |-> "fat", optional |-> FALSE,
        label |-> <<"f", "a", "t">>],
      [name |-> "saturated_fat", optional |-> FALSE,
        label |-> <<"s", "a", "t", "u", "r", "a", "t", "e", "d", "_", "f", "a", "t">>],
      [name |-> "polyunsaturated_fat", optional |-> FALSE,
        label |-> <<"p", "o", "l", "y", "u", "n", "s", "a", "t", "u", "r", "a", "t", "e", "d", "_", "f", "a", "t">>],
      [name |-> "monounsaturated_fat", optional |-> FALSE,
        label |-> <<"m", "o", "n", "o", "u", "n", "s", "a", "t", "u", "r", "a", "t", "e", "d", "_", "f", "a", "t">>],
      [name |-> "trans_fat", optional |-> FALSE,
        label |-> <<"t", "r", "a", "n", "s", "_", "f", "a", "t">>],
      [name |-> "cholesterol", optional |-> FALSE,
        label |-> <<"c", "h", "o", "l", "e", "s", "t", "e", "r", "o", "l">>],
      [name |-> "sodium", optional |-> FALSE,
        label |-> <<"s", "o", "d", "i", "u", "m">>],
      [name |-> "potassium", optional |-> FALSE,
        label |-> <<"p", "o", "t", "a", "s", "s", "i", "u", "m">>],
      [name |-> "carbohydrates", optional |-> FALSE,
        label |-> <<"c", "a", "r", "b", "o", "h", "y", "d", "r", "a", "t", "e", "s">>],
      [name |-> "fiber", optional |-> FALSE,
        label |-> <<"f", "i", "b", "e", "r">>],
      [name |-> "sugar", optional |-> FALSE,
        label |-> <<"s", "u", "g", "a", "r">>],
      [name |-> "protein", optional |-> FALSE,
        label |-> <<"p", "r", "o", "t", "e", "i", "n">>],
      [name |-> "vitamin_a", optional |-> FALSE,
        label |-> <<"v", "i", "t", "a", "m", "i", "n", "_", "a">>],
      [name |-> "vitamin_c", optional |-> FALSE,
        label |-> <<"v", "i", "t", "a", "m", "i", "n", "_", "c">>],
      [name |-> "calcium", optional |-> FALSE,
        label |-> <<"c", "a", "l", "c", "i", "u", "m">>],
      [name |-> "iron", optional |-> FALSE,
        label |-> <<"i", "r", "o", "n">>],
      [name |-> "note", optional |-> TRUE,
        label |-> <<"n", "o", "t", "e">>]>>

\* struct WeightRecord of main.rs: three required fields.
WeightRecordMain ==
    <<[name |-> "date", optional |-> FALSE,
        label |-> <<"d", "a", "t", "e">>],
      [name |-> "body_fat", optional |-> FALSE,
        label |-> <<"b", "o", "d", "y", "_", "f", "a", "t">>],
      [name |-> "weight", optional |-> FALSE,
        label |-> <<"w", "e", "i", "g", "h", "t">>]>>

\* struct WeightRecord of mfp.rs: body_fat is an Option.
WeightRecordMfp ==
    <<[name |-> "date", optional |-> FALSE,
        label |-> <<"d", "a", "t", "e">>],
      [name |-> "body_fat", optional |-> TRUE,
        label |-> <<"b", "o", "d", "y", "_", "f", "a", "t">>],
      [name |-> "weight", optional |-> FALSE,
        label |-> <<"w", "e", "i", "g", "h", "t">>]>>

\* struct RawWorkoutRecord.
RawWorkoutRecord ==
    <<[name |-> "date", optional |-> FALSE,
        label |-> <<"d", "a", "t", "e">>],
      [name |-> "workout_name", optional |-> FALSE,
        label |-> <<"w", "o", "r", "k", "o", "u", "t", "_", "n", "a", "m", "e">>],
      [name |-> "duration", optional |-> FALSE,
        label |-> <<"d", "u", "r", "a", "t", "i", "o", "n">>],
      [name |-> "exercise_name", optional |-> FALSE,
        label |-> <<"e", "x", "e", "r", "c", "i", "s", "e", "_", "n", "a", "m", "e">>],
      [name |-> "set_order", optional |-> FALSE,
        label |-> <<"s", "e", "t", "_", "o", "r", "d", "e", "r">>],
      [name |-> "weight", optional |-> FALSE,
        label |-> <<"w", "e", "i", "g", "h", "t">>],
      [name |-> "reps", optional |-> FALSE,
        label |-> <<"r", "e", "p", "s">>],
      [name |-> "distance", optional |-> FALSE,
        label |-> <<"d", "i", "s", "t", "a", "n", "c", "e">>],
      [name |-> "seconds", optional |-> FALSE,
        label |-> <<"s", "e", "c", "o", "n", "d", "s">>],
      [name |-> "notes", optional |-> FALSE,
        label |-> <<"n", "o", "t", "e", "s">>],
      [name |-> "workout_notes", optional |-> FALSE,
        label |-> <<"w", "o", "r", "k", "o", "u", "t", "_", "n", "o", "t", "e", "s">>],
      [name |-> "rpe", optional |-> FALSE,
        label |-> <<"r", "p", "e">>]>>

\* struct StepsRecord.
StepsRecord ==
    <<[name |-> "date", optional |-> FALSE,
        label |-> <<"d", "a", "t", "e">>],
      [name |-> "exercise", optional |-> FALSE,
        label |-> <<"e", "x", "e", "r", "c", "i", "s", "e">>],
      [name |-> "_type", optional |-> FALSE,
        label |-> <<"_", "t", "y", "p", "e">>],
      [name |-> "exercise_calories", optional |-> FALSE,
        label |-> <<"e", "x", "e", "r", "c", "i", "s", "e", "_", "c", "a", "l", "o", "r", "i", "e", "s">>],
      [name |-> "exercise_minutes", optional |-> FALSE,
        label |-> <<"e", "x", "e", "r", "c", "i", "s", "e", "_", "m", "i", "n", "u", "t", "e", "s">>],
      [name |-> "sets", optional |-> FALSE,
        label |-> <<"s", "e", "t", "s">>],
      [name |-> "rps", optional |-> FALSE,
        label |-> <<"r", "p", "s">>],
      [name |-> "kilograms", optional |-> FALSE,
        label |-> <<"k", "i", "l", "o", "g", "r", "a", "m", "s">>],
      [name |-> "steps", optional |-> FALSE,
        label |-> <<"s", "t", "e", "p", "s">>],
      [name |-> "note", optional |-> FALSE,
        label |-> <<"n", "o", "t", "e">>]>>

\* str::to_lowercase over the characters of the model.
UpperChars == <<"A", "B", "C", "D", "E", "F", "G", "H", "I", "J", "K", "L", "M",
                "N", "O", "P", "Q", "R", "S", "T", "U", "V", "W", "X", "Y", "Z">>
LowerChars == <<"a", "b", "c", "d", "e", "f", "g", "h", "i", "j", "k", "l", "m",
                "n", "o", "p", "q", "r", "s", "t", "u", "v", "w", "x", "y", "z">>

to_lowercase_char(c) ==
    IF \E i \in DOMAIN UpperChars : UpperChars[i] = c
    THEN LowerChars[CHOOSE i \in DOMAIN UpperChars : UpperChars[i] = c]
    ELSE c

RECURSIVE to_lowercase(_)
to_lowercase(h) ==
    IF h = <<>> THEN <<>>
    ELSE <<to_lowercase_char(Head(h))>> \o to_lowercase(Tail(h))

\* match h { "<from>" => "<to>", ..., _ => h }: the first arm that equals h.
RECURSIVE MatchLabel(_, _)
MatchLabel(table, h) ==
    IF table = <<>> THEN h
    ELSE IF Head(table).from = h THEN Head(table).to
    ELSE MatchLabel(Tail(table), h)

\* Faulty variant of normalize_headers: labels without a match arm are left out.
RECURSIVE normalize_headersMutantOnlyMapped(_, _)
normalize_headersMutantOnlyMapped(table, hs) ==
    IF hs = <<>> THEN <<>>
    ELSE (IF MatchLabel(table, Head(hs)) = Head(hs) THEN <<>>
          ELSE <<to_lowercase(MatchLabel(table, Head(hs)))>>)
         \o normalize_headersMutantOnlyMapped(table, Tail(hs))

\* headers.iter().map(match).map(to_lowercase).collect()
RECURSIVE normalize_headers(_, _)
normalize_headers(table, hs) ==
    IF hs = <<>> THEN <<>>
    ELSE <<to_lowercase(MatchLabel(table, Head(hs)))>> \o normalize_headers(table, Tail(hs))

\* A cell is <<text, column>>: a text that differs from column to column.
\* The empty text is the same in every column; an Option field without a
\* column, or with an empty cell, is None, written as the empty cell.
EmptyCell == <<"", 0>>

Columns(hdr, label) == {i \in DOMAIN hdr : hdr[i] = label}

\* Whether the reader's deserialize() yields Ok for the row: the row has as
\* many cells as the header row, every field that is not an Option has a
\* column, and no field has two columns.  Other columns are ignored.
Binds(fields, hdr, row) ==
    /\ Len(row) = Len(hdr)
    /\ \A k \in DOMAIN fields :
          /\ ~fields[k].optional => Columns(hdr, fields[k].label) # {}
          /\ Cardinality(Columns(hdr, fields[k].label)) <= 1

\* The record the row binds to: each field takes the cell of its column.
BindRow(fields, hdr, row) ==
    [n \in {fields[k].name : k \in DOMAIN fields} |->
        LET f == fields[CHOOSE k \in DOMAIN fields : fields[k].name = n]
        IN  IF Columns(hdr, f.label) = {} THEN EmptyCell
            ELSE row[CHOOSE i \in Columns(hdr, f.label) : TRUE]]

\* rdr.deserialize(): one Result per data row, errors included.
deserialize(fields, hdr, rs) ==
    [i \in DOMAIN rs |->
        IF Binds(fields, hdr, rs[i])
        THEN [is_ok |-> TRUE, val |-> BindRow(fields, hdr, rs[i])]
        ELSE [is_ok |-> FALSE, val |-> <<>>]]

\* Faulty variant of partition_is_ok: nothing is kept after the first Err.
RECURSIVE partition_is_okMutantUntilError(_)
partition_is_okMutantUntilError(results) ==
    IF results = <<>> THEN <<>>
    ELSE IF Head(results).is_ok
         THEN <<Head(results).val>> \o partition_is_okMutantUntilError(Tail(results))
         ELSE <<>>

\* .partition(Result::is_ok), first component, then map(Result::unwrap).
RECURSIVE partition_is_ok(_)
partition_is_ok(results) ==
    IF results = <<>> THEN <<>>
    ELSE IF Head(results).is_ok
         THEN <<Head(results).val>> \o partition_is_ok(Tail(results))
         ELSE partition_is_ok(Tail(results))

\* for record in records { only_weight.push(record.weight); }
RECURSIVE only_weight(_)
only_weight(recs) ==
    IF recs = <<>> THEN <<>>
    ELSE <<Head(recs).weight>> \o only_weight(Tail(recs))

\* for record in records { if record.steps != "" { only_steps.push(record.steps); } }
RECURSIVE only_steps(_)
only_steps(recs) ==
    IF recs = <<>> THEN <<>>
    ELSE (IF Head(recs).steps # EmptyCell THEN <<Head(recs).steps>> ELSE <<>>)
         \o only_steps(Tail(recs))

\* The parser behind each data type: its match table and its record struct.
TableOf(dt) ==
    CASE dt \in {"nutrition", "Macros"} -> NutritionTable
      [] dt \in {"weight", "Weight"} -> WeightTable
      [] dt = "workouts" -> WorkoutTable
      [] dt = "Steps" -> StepsTable

FieldsOf(dt) ==
    CASE dt \in {"nutrition", "Macros"} -> RawNutritionRecord
      [] dt = "weight" -> WeightRecordMain
      [] dt = "Weight" -> WeightRecordMfp
      [] dt = "workouts" -> RawWorkoutRecord
      [] dt = "Steps" -> StepsRecord

(***************************************************************************)
(* CSV documents.                                                          *)
(***************************************************************************)
\* The header row of a nutrition export.
NutritionExportHeader ==
    <<<<"D", "a", "t", "e">>,
      <<"M", "e", "a", "l">>,
      <<"C", "a", "l", "o", "r", "i", "e", "s">>,
      <<"F", "a", "t", " ", "(", "g", ")">>,
      <<"S", "a", "t", "u", "r", "a", "t", "e", "d", " ", "F", "a", "t">>,
      <<"P", "o", "l", "y", "u", "n", "s", "a", "t", "u", "r", "a", "t", "e", "d", " ", "F", "a", "t">>,
      <<"M", "o", "n", "o", "u", "n", "s", "a", "t", "u", "r", "a", "t", "e", "d", " ", "F", "a", "t">>,
      <<"T", "r", "a", "n", "s", " ", "F", "a", "t">>,
      <<"C", "h", "o", "l", "e", "s", "t", "e", "r", "o", "l">>,
      <<"S", "o", "d", "i", "u", "m", " ", "(", "m", "g", ")">>,
      <<"P", "o", "t", "a", "s", "s", "i", "u", "m">>,
      <<"C", "a", "r", "b", "o", "h", "y", "d", "r", "a", "t", "e", "s", " ", "(", "g", ")">>,
      <<"F", "i", "b", "e", "r">>,
      <<"S", "u", "g", "a", "r">>,
      <<"P", "r", "o", "t", "e", "i", "n", " ", "(", "g", ")">>,
      <<"V", "i", "t", "a", "m", "i", "n", " ", "A">>,
      <<"V", "i", "t", "a", "m", "i", "n", " ", "C">>,
      <<"C", "a", "l", "c", "i", "u", "m">>,
      <<"I", "r", "o", "n">>,
      <<"N", "o", "t", "e">>>>

\* The header row of a measurement export.
WeightExportHeader ==
    <<<<"D", "a", "t", "e">>,
      <<"B", "o", "d", "y", " ", "F", "a", "t", " ", "%">>,
      <<"W", "e", "i", "g", "h", "t">>>>

\* The header row of a workout export.
WorkoutExportHeader ==
    <<<<"D", "a", "t", "e">>,
      <<"W", "o", "r", "k", "o", "u", "t", " ", "N", "a", "m", "e">>,
      <<"D", "u", "r", "a", "t", "i", "o", "n">>,
      <<"E", "x", "e", "r", "c", "i", "s", "e", " ", "N", "a", "m", "e">>,
      <<"S", "e", "t", " ", "O", "r", "d", "e", "r">>,
      <<"W", "e", "i", "g", "h", "t">>,
      <<"R", "e", "p", "s">>,
      <<"D", "i", "s", "t", "a", "n", "c", "e">>,
      <<"S", "e", "c", "o", "n", "d", "s">>,
      <<"N", "o", "t", "e", "s">>,
      <<"W", "o", "r", "k", "o", "u", "t", " ", "N", "o", "t", "e", "s">>,
      <<"R", "P", "E">>>>

\* The header row of an exercise export.
StepsExportHeader ==
    <<<<"D", "a", "t", "e">>,
      <<"E", "x", "e", "r", "c", "i", "s", "e">>,
      <<"T", "y", "p", "e">>,
      <<"E", "x", "e", "r", "c", "i", "s", "e", " ", "C", "a", "l", "o", "r", "i", "e", "s">>,
      <<"E", "x", "e", "r", "c", "i", "s", "e", " ", "M", "i", "n", "u", "t", "e", "s">>,
      <<"S", "e", "t", "s">>,
      <<"R", "e", "p", "s", " ", "P", "e", "r", " ", "S", "e", "t">>,
      <<"K", "i", "l", "o", "g", "r", "a", "m", "s">>,
      <<"S", "t", "e", "p", "s">>,
      <<"N", "o", "t", "e">>>>

Canonical(fields) == [k \in DOMAIN fields |-> fields[k].label]

NutritionHeaders ==
    { NutritionExportHeader,
      Canonical(RawNutritionRecord),
      SubSeq(NutritionExportHeader, 1, 19),                                \* no Note column
      [NutritionExportHeader EXCEPT ![4] = <<"F", "A", "T", " ", "(", "G", ")">>],
      Append(NutritionExportHeader, <<"f", "a", "t">>) }                  \* fat twice

WeightHeaders ==
    { WeightExportHeader,
      Canonical(WeightRecordMain),
      <<WeightExportHeader[3], WeightExportHeader[2], WeightExportHeader[1]>>,
      <<WeightExportHeader[1], WeightExportHeader[3]>>,                    \* no body fat
      << <<"D", "A", "T", "E">>,
         <<"B", "O", "D", "Y", " ", "F", "A", "T", " ", "%">>,
         <<"W", "E", "I", "G", "H", "T">> >> }

WorkoutHeaders ==
    { WorkoutExportHeader,
      Canonical(RawWorkoutRecord),
      [WorkoutExportHeader EXCEPT
          ![2] = <<"w", "o", "r", "k", "o", "u", "t", " ", "n", "a", "m", "e">>] }

StepsHeaders ==
    { StepsExportHeader,
      Canonical(StepsRecord),
      [StepsExportHeader EXCEPT ![3] = <<"T", "Y", "P", "E">>] }

HeadersOf(dt) ==
    CASE dt \in {"nutrition", "Macros"} -> NutritionHeaders
      [] dt \in {"weight", "Weight"} -> WeightHeaders
      [] dt = "workouts" -> WorkoutHeaders
      [] dt = "Steps" -> StepsHeaders

Row(n, text) == [i \in 1..n |-> IF text = "" THEN EmptyCell ELSE <<text, i>>]

\* Data rows for a header row of n labels: two full rows, a row of empty
\* cells, a row one cell short and a row one cell long.
RowsFor(n) == { Row(n, "a"), Row(n, "b"), Row(n, ""), Row(n - 1, "a"), Row(n + 1, "b") }

DataTypes == {"nutrition", "weight", "workouts", "Macros", "Weight", "Steps"}

InitParse ==
    /\ pc = "start"
    /\ data_type \in DataTypes
    /\ headers \in HeadersOf(data_type)
    /\ rows \in BoundedSeq(RowsFor(Len(headers)), MaxRows)
    /\ new_headers = <<>>
    /\ records = <<>>
    /\ result = <<>>
    /\ records_grouped_by_date = <<>>
    /\ out = <<>>

\* The body shared by the deserialize_* functions: set_headers(new_headers),
\* then the records that deserialize.
Parse(dt) ==
    /\ pc = "start"
    /\ data_type = dt
    /\ new_headers' = normalize_headers(TableOf(dt), headers)
    /\ records' = partition_is_ok(deserialize(FieldsOf(dt), new_headers', rows))
    /\ pc' = "parsed"
    /\ UNCHANGED <<data_type, headers, rows, records_grouped_by_date, out>>

deserialize_nutrition_csv ==
    /\ \E dt \in {"nutrition", "Macros"} : Parse(dt)
    /\ result' = records'

deserialize_weight_csv_main ==
    /\ Parse("weight")
    /\ result' = records'

deserialize_weight_csv_mfp ==
    /\ Parse("Weight")
    /\ result' = only_weight(records')

deserialize_workout_csv ==
    /\ Parse("workouts")
    /\ result' = records'

deserialize_steps_csv ==
    /\ Parse("Steps")
    /\ result' = only_steps(records')

NextParse ==
    \/ deserialize_nutrition_csv
    \/ deserialize_weight_csv_main
    \/ deserialize_weight_csv_mfp
    \/ deserialize_workout_csv
    \/ deserialize_steps_csv

SpecParse == InitParse /\ [][NextParse]_vars

(***************************************************************************)
(* Properties of the parsers.                                              *)
(***************************************************************************)
\* The rows of the document that bind to the parser's record struct.
Conforming == {i \in DOMAIN rows : Binds(FieldsOf(data_type), new_headers, rows[i])}

\* Position, among the conforming rows, of conforming row i.
Rank(i) == Cardinality({j \in Conforming : j <= i})

\* C7: the records returned by deserialize_nutrition_csv,
\* deserialize_weight_csv and deserialize_workout_csv are exactly the rows that
\* bind to the record struct, in their original relative order; a row that does
\* not bind is dropped without an error and without effect on the rows after
\* it; so there are at most as many records as rows, and as many when every
\* row binds.  (deserialize_weight_csv of mfp.rs returns the weight field of
\* each of those records.)
C7_ExactlyConformingRowsInOrder ==
    (pc = "parsed" /\ data_type \in {"nutrition", "Macros", "weight", "Weight", "workouts"}) =>
        /\ Len(records) = Cardinality(Conforming)
        /\ Len(result) = Len(records)
        /\ Len(result) <= Len(rows)
        /\ (Conforming = DOMAIN rows) => Len(result) = Len(rows)
        /\ \A i \in Conforming :
              /\ records[Rank(i)] = BindRow(FieldsOf(data_type), new_headers, rows[i])
              /\ result[Rank(i)] = IF data_type = "Weight"
                                   THEN records[Rank(i)].weight
                                   ELSE records[Rank(i)]

\* C7 witness: a row that does not bind between two different rows that do;
\* both are returned, in order.
C7_Witness ==
    /\ pc = "parsed"
    /\ data_type = "workouts"
    /\ Len(rows) = 3
    /\ Conforming = {1, 3}
    /\ Len(result) = 2
    /\ result[1] # result[2]
    /\ result[1].date = rows[1][1]
    /\ result[2].date = rows[3][1]

\* C8: for each record kind, normalizing the normalized header row returns
\* it unchanged, and the normalized row has the length of the header row, its
\* i-th label being the i-th label's match result in lower case.
C8_NormalizeIdempotentSameShape ==
    pc = "parsed" =>
        /\ normalize_headers(TableOf(data_type), new_headers) = new_headers
        /\ Len(new_headers) = Len(headers)
        /\ \A i \in DOMAIN headers :
              new_headers[i] = to_lowercase(MatchLabel(TableOf(data_type), headers[i]))

\* C8 witness: a header row with a mapped label and an unmapped label in
\* capitals has been normalized to a different row.
C8_Witness ==
    /\ pc = "parsed"
    /\ \E i \in DOMAIN headers : MatchLabel(TableOf(data_type), headers[i]) # headers[i]
    /\ \E i \in DOMAIN headers :
          /\ MatchLabel(TableOf(data_type), headers[i]) = headers[i]
          /\ new_headers[i] # headers[i]

====
